---- MODULE Spec2Model ----
(***************************************************************************)
(* Model of the analysis pipeline of kbid-arbitrage-analyzer:              *)
(*   - calculateProfit            (src/services/profitCalculator.ts)       *)
(*   - processItem, processWithConcurrency, POST                           *)
(*                                (src/app/api/run-analysis/route.ts)      *)
(*   - extractItemDetails         (src/unnamed/part_016)                   *)
(*   - getValuation               (src/unnamed/part_015)                   *)
(*   - fetchWithRetry, getAuctionItems, scrapeSingleAuction, scrapeKBid    *)
(*                                (src/services/categoryAnalyzer.ts)       *)
(*                                                                         *)
(* Units.  Bids and every monetary output are whole cents.  The estimated  *)
(* value V and the dollar target D are whole dollars, the selling fee and  *)
(* the ROI target R whole percents (R >= 0), ROI outputs are hundredths of *)
(* a percent.  With these inputs every intermediate value of               *)
(* calculateProfit is a rational number, kept here as an exact fraction;   *)
(* Math.round(x * 100) / 100 is the round-half-up of that fraction.  The   *)
(* IEEE doubles of the code differ from the exact value by far less than   *)
(* half a cent, so the rounded outputs agree except on exact half-cent     *)
(* ties.                                                                   *)
(***************************************************************************)
EXTENDS Integers, Sequences, FiniteSets, TLC

VARIABLES
    pin,        \* calculateProfit: the inputs of the call (item, valuation, params)
    pout,       \* calculateProfit: the ProfitAnalysis returned, or NoResult
    prev,       \* calculateProfit: inputs and result of the previous call, or NoResult
    items,      \* processWithConcurrency: the items array
    index,      \* processWithConcurrency: the shared `index`
    results,    \* processWithConcurrency: the shared `results`
    pc,         \* per worker: its position in worker()/processItem
    cur,        \* per worker: its `currentIndex`
    val,        \* per worker: the valuation its getValuation call returned
    concurrency,\* processWithConcurrency: the `concurrency` argument
    calls,      \* history: per index, how often the processor was called on it
    failed,     \* history: the indexes whose processor returned null
    stages,     \* history: per raw item, the stages that were called on it
    phase,      \* POST: position in the handler
    params,     \* POST: the request's parameters
    rawItems,   \* POST: params.raw_items
    parsedItems,\* POST: what extractItemDetails returned
    response,   \* POST: the response returned, or NoResult
    classified, \* history: per raw item, how its classification call ended
    retries,    \* fetchWithRetry: the `retries` argument
    attempt,    \* fetchWithRetry: the loop variable `i`
    fetchPc,    \* fetchWithRetry: position in the attempt, or how the call ended
    elapsed,    \* fetchWithRetry: clock ticks since the attempt under way started
    timers,     \* fetchWithRetry: the attempts whose abort timer is set
    events,     \* history: what the attempt under way has seen of its response
    attemptLog, \* history: how each attempt ended, in order
    waits,      \* history: the number of retry delays waited
    query,      \* getValuation: the number of search queries issued
    searchResults, \* getValuation: length of the `searchResults` array
    valPc,      \* getValuation: position in the function
    queryLog,   \* history: how each search query ended, in order
    synthesis,  \* history: the number of synthesis calls made
    valuation,  \* getValuation: the ValuationResult returned, or NoResult
    rawItem,    \* extractItemDetails: the raw item of one classification call
    classifierJson, \* extractItemDetails: the JSON the classifier returned for it
    parsedItem, \* extractItemDetails: the ParsedItem built from both, or NoResult
    scrapePc,   \* scrape-items POST: position in scrapeKBid / scrapeSingleAuction
    request,    \* scrape-items POST: the request's parameters
    auctions,   \* scrapeKBid: what getAuctionList returned
    toScrape,   \* scrapeKBid: `auctionsToScrape`
    inFlight,   \* scrapeKBid: the entries of `auctionBatch` whose promise is pending
    pageItems,  \* scrapeKBid: per entry of `auctionBatch`, what getAuctionItems gave
    served,     \* scrapeSingleAuction: what the site serves for each entry of `urlsToTry`
    variant,    \* scrapeSingleAuction: the index into `urlsToTry`
    allItems,   \* scrapeSingleAuction: `allItems`
    page,       \* scrapeSingleAuction: the loop variable `page`
    maxPage,    \* scrapeSingleAuction: `maxPage`
    scraped,    \* scrape-items POST: the response returned, or NoResult
    pageFailures, \* history: the page fetches that exhausted their retries
    html,       \* getAuctionItems: what the strategies find on the fetched page
    extracted,  \* getAuctionItems: the records returned
    ran,        \* history: the strategies that ran on the page
    pushed      \* history: the strategies that pushed a record

vars == <<pin, pout, prev, items, index, results, pc, cur, val, concurrency, calls,
          failed, stages,
          phase, params, rawItems, parsedItems, response, classified,
          retries, attempt, fetchPc, elapsed, timers, events, attemptLog, waits,
          query, searchResults, valPc, queryLog, synthesis, valuation,
          rawItem, classifierJson, parsedItem,
          scrapePc, request, auctions, toScrape, inFlight, pageItems, served, variant,
          allItems, page, maxPage, scraped, pageFailures,
          html, extracted, ran, pushed>>

profitVars == <<pin, pout, prev>>
poolVars == <<items, index, results, pc, cur, val, concurrency, calls, failed>>
postVars == <<stages, phase, params, rawItems, parsedItems, response>>
fetchVars == <<retries, attempt, fetchPc, elapsed, timers, events, attemptLog, waits>>
valuationVars == <<query, searchResults, valPc, queryLog, synthesis, valuation>>
parseVars == <<rawItem, classifierJson, parsedItem>>
crawlVars == <<scrapePc, request, auctions, toScrape, inFlight, pageItems, served, variant,
                allItems, page, maxPage, scraped, pageFailures>>
pageVars == <<html, extracted, ran, pushed>>
scrapeVars == <<crawlVars, pageVars>>
sideVars == <<fetchVars, valuationVars, parseVars, scrapeVars>>

NoResult == [none |-> TRUE]

\* no call of fetchWithRetry, of getValuation, of the classifier or of the
\* scraper is under way
FetchIdle ==
    /\ retries = 0
    /\ attempt = 0
    /\ fetchPc = "idle"
    /\ elapsed = 0
    /\ timers = {}
    /\ events = <<>>
    /\ attemptLog = <<>>
    /\ waits = 0

ValuationIdle ==
    /\ query = 0
    /\ searchResults = 0
    /\ valPc = "idle"
    /\ queryLog = <<>>
    /\ synthesis = 0
    /\ valuation = NoResult

ParseIdle ==
    /\ rawItem = NoResult
    /\ classifierJson = NoResult
    /\ parsedItem = NoResult

CrawlIdle ==
    /\ scrapePc = "idle"
    /\ request = NoResult
    /\ auctions = <<>>
    /\ toScrape = <<>>
    /\ inFlight = {}
    /\ pageItems = <<>>
    /\ served = <<>>
    /\ variant = 0
    /\ allItems = <<>>
    /\ page = 0
    /\ maxPage = 0
    /\ scraped = NoResult
    /\ pageFailures = {}

PageIdle ==
    /\ html = NoResult
    /\ extracted = <<>>
    /\ ran = {}
    /\ pushed = {}

ScrapeIdle == CrawlIdle /\ PageIdle

-----------------------------------------------------------------------------
(* Bounds of the model *)

MaxValueStep == 6      \* estimated values are 25, 50, ..., 25 * MaxValueStep dollars
MaxBidCents == 11      \* low bids 0 .. MaxBidCents cents (all phases of bid * 1.1)
MaxItems == 4          \* longest items array handed to processWithConcurrency
MaxWorkers == 3        \* largest concurrency handed to processWithConcurrency
MaxBatch == 2          \* longest raw_items batch of a POST request

-----------------------------------------------------------------------------
(* Arithmetic helpers *)

Min(a, b) == IF a <= b THEN a ELSE b
Max(a, b) == IF a >= b THEN a ELSE b

\* floor(n * 10^k / d) and the remainder, by long division (d > 0)
RECURSIVE LongDiv(_, _, _)
LongDiv(n, d, k) ==
    IF k = 0 THEN <<n \div d, n % d>>
    ELSE LET p == LongDiv(n, d, k - 1)
         IN  <<p[1] * 10 + (p[2] * 10) \div d, (p[2] * 10) % d>>

\* Math.round(n / d * 10^k): floor(x + 0.5), halves go up (d > 0)
RoundScaled(n, d, k) ==
    LET p == LongDiv(n, d, k)
    IN  IF 2 * p[2] >= d THEN p[1] + 1 ELSE p[1]

\* Math.round(x * 100) / 100 for x = n / d cents, as whole cents
RoundCents(n, d) == RoundScaled(n, d, 0)

-----------------------------------------------------------------------------
(* src/services/profitCalculator.ts *)

SizeClasses == {"small", "medium", "large", "oversized"}

\* SHIPPING_ESTIMATES[item.sizeClass] || 15, in cents
ShippingEstimate(sizeClass) ==
    CASE sizeClass = "small" -> 800
      [] sizeClass = "medium" -> 1500
      [] sizeClass = "large" -> 3500
      [] sizeClass = "oversized" -> 7500
      [] OTHER -> 1500

\* KBID_BUYER_PREMIUM_RATE = 0.10 as tenths: buyerPremiumMultiplier = 11 / 10
PremiumTenths == 1
MultNum == 10 + PremiumTenths
MultDen == 10

\* netProceeds in cents: estimatedValue - sellingFees - shippingEstimate
NetProceeds(V, sizeClass, fee) == 100 * V - V * fee - ShippingEstimate(sizeClass)

\* The two ceilings over the common denominator BidDen(R), in cents:
\*   maxBidForDollarProfit = (netProceeds - D) / multiplier
\*   maxBidForROI = netProceeds / (multiplier * (1 + R / 100))
BidDen(R) == MultNum * (100 + R)
DollarNum(N, D, R) == (N - 100 * D) * MultDen * (100 + R)

\* mutant: the ROI ceiling of the earlier version, without the buyer's premium
ROINumNoPremium(N, R) == N * MultNum * 100

ROINum(N, R) == N * MultDen * 100

\* mutant: the clamp at 0 is missing
MaxBidNumNoClamp(N, D, R) == Min(DollarNum(N, D, R), ROINum(N, R))

\* mutant: the higher of the two ceilings is taken
MaxBidNumHigher(N, D, R) == Max(0, Max(DollarNum(N, D, R), ROINum(N, R)))

\* Math.max(0, Math.min(maxBidForDollarProfit, maxBidForROI)), numerator over BidDen(R)
MaxBidNum(N, D, R) == Max(0, Min(DollarNum(N, D, R), ROINum(N, R)))

\* (profit / cost) * 100 rounded to hundredths of a percent, 0 when cost is not > 0;
\* profit = pn / d and cost = cn / d
ROIOf(pn, cn) == IF cn > 0 THEN RoundScaled(pn, cn, 4) ELSE 0

\* mutant: actualProfit rounded to whole dollars
ActualProfitWholeDollars(N, bid) ==
    100 * RoundCents(MultDen * N - MultNum * bid, MultDen * 100)

\* mutant: the break-even price of the earlier version, without the buyer's premium
BreakEvenNoPremium(N) == N

\* breakEvenPrice: netProceeds / multiplier, rounded to cents
BreakEvenPrice(N) == RoundCents(N * MultDen, MultNum)

\* actualProfit: netProceeds - currentBid * multiplier, rounded to cents
ActualProfit(N, bid) == RoundCents(MultDen * N - MultNum * bid, MultDen)

calculateProfit(in) ==
    LET N == NetProceeds(in.V, in.sizeClass, in.fee)
        mb == MaxBidNum(N, in.D, in.R)
        \* maxBidTotalCost = maxBid * multiplier = mb / costDen
        costDen == MultDen * (100 + in.R)
    IN  [ maxBid |-> RoundCents(mb, BidDen(in.R)),
          expectedProfit |-> RoundCents(N * costDen - mb, costDen),
          expectedROI |-> ROIOf(N * costDen - mb, mb),
          actualProfit |-> ActualProfit(N, in.bid),
          actualROI |-> ROIOf(MultDen * N - MultNum * in.bid, MultNum * in.bid),
          breakEvenPrice |-> BreakEvenPrice(N),
          shippingEstimate |-> ShippingEstimate(in.sizeClass),
          fees |-> in.V * in.fee ]

-----------------------------------------------------------------------------
(* Inputs of the profit model *)

\* processItem calls calculateProfit with a non-zero estimatedValue only
Values == {25 * k : k \in 1..MaxValueStep}
Fees == {0, 13}
DollarTargets == {0, 20}
ROITargets == {0, 30}
\* the profit model alone is also run on negative targets
AllDollarTargets == DollarTargets \cup {-20}
AllROITargets == ROITargets \cup {-50}
Bids == (0..MaxBidCents) \cup {4000, 8077, 8078}
ClassifierSizes == SizeClasses \cup {"unknown"}

ProfitInputs ==
    [V : Values, sizeClass : ClassifierSizes, fee : Fees,
     D : AllDollarTargets, R : AllROITargets, bid : Bids]

-----------------------------------------------------------------------------
(* The profit model as a state machine: one call, then calls that differ   *)
(* from the previous one in the item's current bid only.                   *)

InitProfit ==
    /\ pin \in ProfitInputs
    /\ pout = NoResult
    /\ prev = NoResult
    /\ phase = "idle"
    /\ items = <<>> /\ index = 0 /\ results = <<>> /\ concurrency = 0 /\ failed = {}
    /\ pc = <<>> /\ cur = <<>> /\ val = <<>> /\ calls = <<>>
    /\ stages = <<>> /\ params = NoResult /\ rawItems = <<>> /\ parsedItems = <<>>
    /\ response = NoResult
    /\ classified = <<>>
    /\ FetchIdle /\ ValuationIdle /\ ParseIdle /\ ScrapeIdle

\* calculateProfit(item, valuation, params)
Calculate ==
    /\ pout = NoResult
    /\ pout' = calculateProfit(pin)
    /\ UNCHANGED <<pin, prev>>

\* the same item, valuation and params at another current bid
Rebid(b) ==
    /\ pout # NoResult
    /\ b # pin.bid
    /\ prev' = [in |-> pin, out |-> pout]
    /\ pin' = [pin EXCEPT !.bid = b]
    /\ pout' = calculateProfit(pin')

-----------------------------------------------------------------------------
(* src/app/api/run-analysis/route.ts: processWithConcurrency               *)

Workers == 1..MaxWorkers
Indexes == 0..(MaxItems + 1)

Null == [null |-> TRUE]

\* mutant: the claim leaves index where it was
AfterClaimNoIncrement(i) == i

\* `index++`: the value of index after a worker claimed `i`
AfterClaim(i) == i + 1

\* `while (index < items.length)`
LoopTest(i, n) == i < n

\* `if (result !== null) results.push(result)`
Push(res, r) == IF r # Null THEN Append(res, r) ELSE res

\* worker(), from its loop test to its next await (the processor call on the
\* claimed item) or to its end; no await lies between the test and `index++`
WorkerLoop(w) ==
    IF LoopTest(index, Len(items))
    THEN /\ cur' = [cur EXCEPT ![w] = index]
         /\ index' = AfterClaim(index)
         /\ calls' = [calls EXCEPT ![index] = @ + 1]
         /\ pc' = [pc EXCEPT ![w] = "valuation"]
    ELSE /\ pc' = [pc EXCEPT ![w] = "done"]
         /\ UNCHANGED <<cur, index, calls>>

\* worker() resumes from `await processor(items[currentIndex])` with result r
WorkerResume(w, r) ==
    /\ results' = Push(results, r)
    /\ failed' = IF r = Null THEN failed \cup {cur[w]} ELSE failed
    /\ WorkerLoop(w)

\* Array(Math.min(concurrency, items.length)).fill(null).map(() => worker()):
\* the workers are started one after the other, each running to its first await
RECURSIVE IndexAfterSpawn(_, _)
IndexAfterSpawn(k, n) ==
    IF k = 0 THEN 0
    ELSE LET i == IndexAfterSpawn(k - 1, n)
         IN  IF LoopTest(i, n) THEN AfterClaim(i) ELSE i

\* mutant: one worker is started per item
WorkerCountPerItem(K, n) == n

\* `Math.min(concurrency, items.length)`: the number of workers started
WorkerCount(K, n) == Min(K, n)

SpawnWorkers(its, K) ==
    LET n == Len(its)
        k == WorkerCount(K, n)
    IN  /\ items' = its
        /\ concurrency' = K
        /\ results' = <<>>
        /\ failed' = {}
        /\ index' = IndexAfterSpawn(k, n)
        /\ cur' = [w \in Workers |-> IF w <= k THEN IndexAfterSpawn(w - 1, n) ELSE 0]
        /\ pc' = [w \in Workers |->
                    IF w > k THEN "idle"
                    ELSE IF LoopTest(IndexAfterSpawn(w - 1, n), n) THEN "valuation"
                    ELSE "done"]
        /\ calls' = [i \in Indexes |->
                       Cardinality({w \in 1..k : /\ IndexAfterSpawn(w - 1, n) = i
                                                 /\ LoopTest(i, n)})]
        /\ val' = [w \in Workers |-> 0]

\* `await Promise.all(workers)` resolves: every started worker has ended
AllWorkersDone == \A w \in Workers : pc[w] \in {"idle", "done"}

PoolIdle ==
    /\ items = <<>>
    /\ index = 0
    /\ results = <<>>
    /\ pc = [w \in Workers |-> "idle"]
    /\ cur = [w \in Workers |-> 0]
    /\ val = [w \in Workers |-> 0]
    /\ concurrency = 0
    /\ calls = [i \in Indexes |-> 0]
    /\ failed = {}

\* no analysis request and no call of calculateProfit is under way
PipelineIdle ==
    /\ phase = "idle"
    /\ PoolIdle
    /\ pin = NoResult /\ pout = NoResult /\ prev = NoResult
    /\ stages = <<>> /\ params = NoResult /\ rawItems = <<>> /\ parsedItems = <<>>
    /\ response = NoResult
    /\ classified = <<>>

-----------------------------------------------------------------------------
(* processWithConcurrency<T, R> with a generic processor: each call ends   *)
(* with null or with a result for its item.                                *)

\* processWithConcurrency(items, processor, K)
PoolCall(n, K) ==
    /\ phase = "idle"
    /\ phase' = "pool"
    /\ SpawnWorkers([i \in 1..n |-> [id |-> i]], K)
    /\ UNCHANGED <<profitVars, stages, params, rawItems, parsedItems, response>>

\* the processor call of worker w returns: a result for its item, or null
ProcessorReturns(w, ok) ==
    /\ phase = "pool"
    /\ pc[w] = "valuation"
    /\ WorkerResume(w, IF ok THEN [of |-> items[cur[w] + 1].id] ELSE Null)
    /\ UNCHANGED <<items, val, concurrency, profitVars, postVars>>

\* `return results`
PoolReturn ==
    /\ phase = "pool"
    /\ AllWorkersDone
    /\ phase' = "returned"
    /\ response' = [items |-> results]
    /\ UNCHANGED <<poolVars, profitVars, stages, params, rawItems, parsedItems>>

-----------------------------------------------------------------------------
(* src/unnamed/part_016: extractItemDetails                                *)

\* the keywords of the second exclusion guard
EXCLUDED_CATEGORIES ==
    {"coins", "currency", "precious metals", "commercial", "industrial",
     "farm equipment", "heavy equipment", "construction"}

\* What the classification call of one raw item gives: a failure (the call
\* throws or its text is no JSON), or the parsed JSON.  mentions: the phrases
\* that the returned category or title, in lower case, contains.
ClassifierFailure == [failure |-> TRUE]
ClassifierCategories == {"Electronics"}
ClassifierBids == {0, 9000}
ClassifierResponses ==
    {ClassifierFailure} \cup
    [excluded : BOOLEAN, mentions : {{}, {"coins"}}, currentBid : ClassifierBids,
     category : ClassifierCategories, sizeClass : {"medium"}]

\* an optional count that is absent (`bidCount?: number` left undefined)
Missing == -1

MaxBidCount == 7       \* largest bidCount of a raw item in the model
MaxBidderCount == 3    \* largest bidderCount of a raw item in the model

\* mutant: calculateInterestLevel of the earlier extractor (src/services/aiExtractor.ts)
calculateInterestLevelEarlier(bidCount, bidderCount) ==
    LET bids == IF bidCount = Missing THEN 0 ELSE bidCount
        bidders == IF bidderCount = Missing THEN 0 ELSE bidderCount
    IN  IF bids >= 5 \/ bidders >= 3 THEN "high"
        ELSE IF bids >= 2 \/ bidders >= 2 THEN "medium"
        ELSE "low"

\* calculateInterestLevel: `bidCount || 0`, `bidderCount || 0`;
\* bidsPerBidder = bids / bidders >= 3 is bids >= 3 * bidders for bidders > 0
calculateInterestLevel(bidCount, bidderCount) ==
    LET bids == IF bidCount = Missing THEN 0 ELSE bidCount
        bidders == IF bidderCount = Missing THEN 0 ELSE bidderCount
        bidsPerBidderAtLeast3 == bidders > 0 /\ bids >= 3 * bidders
    IN  IF bidders >= 2 /\ bidsPerBidderAtLeast3 THEN "high"
        ELSE IF bidders >= 2 \/ bids >= 4 THEN "medium"
        ELSE "low"

\* `if (isExcludedCategory && !parsed.excluded) parsed.excluded = true`,
\* then `excluded: parsed.excluded || false`
\* EXCLUDED_CATEGORIES.some(exc => category.includes(exc) || title.includes(exc))
isExcludedCategory(mentions) == \E exc \in EXCLUDED_CATEGORIES : exc \in mentions

ExcludedFlag(resp) ==
    IF isExcludedCategory(resp.mentions) /\ ~resp.excluded THEN TRUE ELSE resp.excluded

\* `typeof parsed.currentBid === 'number' ? parsed.currentBid : 0`, replaced by the
\* scraper's bid when it is 0 and the scraper captured a positive bid
ParsedBid(raw, resp) ==
    IF resp.currentBid = 0 /\ raw.currentBid > 0 THEN raw.currentBid ELSE resp.currentBid

\* the ParsedItem of raw item i (id item-i), or null when the call failed
ParseOne(i, raw, resp) ==
    IF resp = ClassifierFailure THEN Null
    ELSE [id |-> i,
          currentBid |-> ParsedBid(raw, resp),
          category |-> resp.category,
          sizeClass |-> resp.sizeClass,
          excluded |-> ExcludedFlag(resp),
          bidCount |-> raw.bidCount,
          bidderCount |-> raw.bidderCount,
          interestLevel |-> calculateInterestLevel(raw.bidCount, raw.bidderCount)]

\* results.push(...batchResults.filter(item => item !== null)), batch after batch:
\* the non-null ParsedItems in the order of the raw items
RECURSIVE NonNull(_)
NonNull(seq) ==
    IF seq = <<>> THEN <<>>
    ELSE IF Head(seq) = Null THEN NonNull(Tail(seq))
    ELSE <<Head(seq)>> \o NonNull(Tail(seq))

extractItemDetails(raws, resps) ==
    NonNull([i \in 1..Len(raws) |-> ParseOne(i, raws[i], resps[i])])

-----------------------------------------------------------------------------
(* One classification call of extractItemDetails on its own: a raw item of  *)
(* the scraper and what the classifier answers for it.  The classifier may *)
(* volunteer an interestLevel of its own in its JSON.                      *)

OptionalCounts(max) == {Missing} \cup (0..max)

ScrapedItems ==
    [currentBid : ClassifierBids, bidCount : OptionalCounts(MaxBidCount),
     bidderCount : OptionalCounts(MaxBidderCount)]

\* what the category and the title of an answer can contain: nothing of note,
\* a keyword of the guard, or the name of another kind of item the prompt asks
\* the classifier to exclude
MentionSets ==
    {{}, {"coins"}, {"precious metals"}, {"industrial"}, {"farm equipment"},
     {"heavy equipment"}, {"vehicles"}, {"real estate"}, {"firearms"}, {"bullion"},
     {"coins", "vehicles"}}

\* the numbers the classifier can give as currentBid, in cents; 0 also stands for
\* a currentBid that is no number, which the code replaces by 0
JsonBids == {-500, 0, 9000}

ClassifierJsons ==
    {ClassifierFailure} \cup
    [excluded : BOOLEAN, mentions : MentionSets, currentBid : JsonBids,
     category : ClassifierCategories, sizeClass : {"medium"},
     interestLevel : {"absent", "low", "high"}]

InitParse ==
    /\ rawItem \in ScrapedItems
    /\ classifierJson \in ClassifierJsons
    /\ parsedItem = NoResult
    /\ PipelineIdle /\ FetchIdle /\ ValuationIdle /\ ScrapeIdle

\* the callback of batch.map for this item runs to its return
ClassifyItem ==
    /\ parsedItem = NoResult
    /\ parsedItem' = ParseOne(1, rawItem, classifierJson)
    /\ UNCHANGED <<rawItem, classifierJson>>

NextParse ==
    ClassifyItem
      /\ UNCHANGED <<profitVars, poolVars, postVars, classified, fetchVars,
                     valuationVars, scrapeVars>>

SpecParse == InitParse /\ [][NextParse]_vars


-----------------------------------------------------------------------------
(* src/app/api/run-analysis/route.ts: processItem and POST                 *)

\* the literal concurrency POST hands to processWithConcurrency
ItemConcurrency == 3

PipelineValues == {0, 150}
ZeroProfit ==
    [maxBid |-> 0, expectedProfit |-> 0, expectedROI |-> 0, actualProfit |-> 0,
     actualROI |-> 0, breakEvenPrice |-> 0, shippingEstimate |-> 0, fees |-> 0]

\* mutant: the criteria of the earlier processItem, without the bid test
MeetsCriteriaNoBid(profit, currentBid, D, R) ==
    /\ profit.expectedProfit >= 100 * D
    /\ profit.expectedROI >= 100 * R

\* mutant: the bid is tested against the break-even price
MeetsCriteriaBreakEven(profit, currentBid, D, R) ==
    /\ profit.expectedProfit >= 100 * D
    /\ profit.expectedROI >= 100 * R
    /\ currentBid <= profit.breakEvenPrice

\* profit.expectedProfit >= profit_min_dollars && profit.expectedROI >=
\* profit_min_percent && item.currentBid <= profit.maxBid
MeetsCriteria(profit, currentBid, D, R) ==
    /\ profit.expectedProfit >= 100 * D
    /\ profit.expectedROI >= 100 * R
    /\ currentBid <= profit.maxBid

\* how the advice call of getResaleAdvice can end: it throws or its content is
\* no text or no JSON, or it gives the parsed JSON
AdviceOutcomes == {"failed", "parsed"}

\* mutant: getResaleAdvice has no catch, a failure of the call is thrown on
getResaleAdviceThrows(outcome) ==
    IF outcome = "failed" THEN "thrown" ELSE "advice"

\* src/supabase-schema.sql, getResaleAdvice: the advice built from the parsed
\* JSON, or the default advice its catch returns
getResaleAdvice(outcome) ==
    IF outcome = "failed" THEN "default" ELSE "advice"

\* What processItem returns for an item whose getValuation call returned
\* estimatedValue v and whose advice call, if made, ended with `outcome`: the
\* placeholder, the AnalyzedItem, or null from its catch when a call threw
\* (getValuation and getResaleAdvice catch their own errors).
processItem(item, v, prm, outcome) ==
    IF v = 0
    THEN [item |-> item, valuation |-> v, profit |-> ZeroProfit,
          resale |-> "placeholder", meetsCriteria |-> FALSE]
    ELSE LET profit == calculateProfit([V |-> v, sizeClass |-> item.sizeClass,
                                        fee |-> prm.fee, D |-> prm.D, R |-> prm.R,
                                        bid |-> item.currentBid])
             resale == getResaleAdvice(outcome)
         IN  IF resale = "thrown" THEN Null
             ELSE [item |-> item, valuation |-> v, profit |-> profit,
                   resale |-> resale,
                   meetsCriteria |-> MeetsCriteria(profit, item.currentBid, prm.D, prm.R)]

\* mutant: the exclusion filter is missing
NoExclusionFilter(parsed) == parsed

\* parsedItems.filter(item => !item.excluded)
Eligible(parsed) == SelectSeq(parsed, LAMBDA it : ~it.excluded)

\* src/lib/config.ts: CATEGORY_OPTIONS
CategoryOptions ==
    {"Coins, Currency & Precious Metals", "Commercial & Industrial", "Farm Equipment",
     "Heavy Equipment & Construction", "Household & Estate", "Real Estate",
     "Sporting Goods & Hobbies", "Technology", "Vehicles & Marine"}

\* src/lib/config.ts: mapToFilterCategory, on the categories of the model
mapToFilterCategory(aiCategory) ==
    CASE aiCategory = "Electronics" -> "Technology"
      [] OTHER -> "Household & Estate"

\* the category filter: applied when selected_categories is given, not empty
\* and not all of CATEGORY_OPTIONS
CategoryFilter(eligible, selected) ==
    IF selected # {} /\ Cardinality(selected) < Cardinality(CategoryOptions)
    THEN SelectSeq(eligible, LAMBDA it : mapToFilterCategory(it.category) \in selected)
    ELSE eligible

\* mutant: the results are returned as accumulated, unsorted
Unsorted(seq) == seq

\* analyzedItems.sort((a, b) => b.profit.expectedProfit - a.profit.expectedProfit):
\* Array.prototype.sort is stable, equal keys keep their order
RECURSIVE InsertByProfit(_, _)
InsertByProfit(sorted, x) ==
    IF sorted = <<>> THEN <<x>>
    ELSE IF Head(sorted).profit.expectedProfit >= x.profit.expectedProfit
    THEN <<Head(sorted)>> \o InsertByProfit(Tail(sorted), x)
    ELSE <<x>> \o sorted

RECURSIVE SortByProfit(_)
SortByProfit(seq) ==
    IF seq = <<>> THEN <<>>
    ELSE InsertByProfit(SortByProfit(SubSeq(seq, 1, Len(seq) - 1)), seq[Len(seq)])

FailureResponse(status) ==
    [success |-> FALSE, status |-> status, items |-> <<>>,
     summary |-> [totalScraped |-> 0, totalAnalyzed |-> 0, totalProfitable |-> 0,
                  errors |-> 1]]

RawItems == [currentBid : ClassifierBids, bidCount : {6}, bidderCount : {2}]
RECURSIVE SeqsUpTo(_, _)
SeqsUpTo(S, n) ==
    IF n = 0 THEN {<<>>}
    ELSE LET shorter == SeqsUpTo(S, n - 1)
         IN  shorter \cup {Append(q, x) : q \in {t \in shorter : Len(t) = n - 1}, x \in S}

RequestParams ==
    {p \in [targetsGiven : BOOLEAN, D : DollarTargets, R : ROITargets, fee : {13},
            selected : {{}, {"Technology"}, {"Real Estate"}, CategoryOptions},
            anthropicKey : BOOLEAN, serperKey : BOOLEAN] :
        (p.D = 0) = (p.R = 0)}

\* the request arrives
Init ==
    /\ phase = "received"
    /\ params \in RequestParams
    /\ rawItems \in SeqsUpTo(RawItems, MaxBatch)
    /\ parsedItems = <<>>
    /\ stages = [i \in 1..Len(rawItems) |-> {}]
    /\ response = NoResult
    /\ classified = <<>>
    /\ PoolIdle
    /\ pin = NoResult /\ pout = NoResult /\ prev = NoResult
    /\ FetchIdle /\ ValuationIdle /\ ParseIdle /\ ScrapeIdle

\* mutant: only the classifier's key is checked
MissingAnthropicKeyOnly(p) == ~p.anthropicKey

\* `!process.env.ANTHROPIC_API_KEY`, then `!process.env.SERPER_API_KEY`
MissingCredential(p) == ~p.anthropicKey \/ ~p.serperKey

\* POST, lines 195-226: the parameter and credential checks
Validate ==
    /\ phase = "received"
    /\ IF ~params.targetsGiven \/ rawItems = <<>>
       THEN phase' = "responded" /\ response' = FailureResponse(400)
       ELSE IF MissingCredential(params)
       THEN phase' = "responded" /\ response' = FailureResponse(500)
       ELSE phase' = "extract" /\ UNCHANGED response
    /\ UNCHANGED <<poolVars, profitVars, stages, params, rawItems, parsedItems>>

\* POST, line 233: `await extractItemDetails(rawItems)` resolves
Extract(resps) ==
    /\ phase = "extract"
    /\ parsedItems' = extractItemDetails(rawItems, resps)
    /\ classified' = [i \in 1..Len(rawItems) |->
                        IF resps[i] = ClassifierFailure THEN "failed" ELSE "parsed"]
    /\ phase' = "filter"
    /\ UNCHANGED <<poolVars, profitVars, stages, params, rawItems, response>>

\* POST, lines 237-270: the two filters, the empty answer, or the start of the pool
Filter ==
    /\ phase = "filter"
    /\ LET eligibleItems == CategoryFilter(Eligible(parsedItems), params.selected)
       IN  IF eligibleItems = <<>>
           THEN /\ phase' = "responded"
                /\ response' = [success |-> TRUE, status |-> 200, items |-> <<>>,
                                summary |-> [totalScraped |-> Len(rawItems),
                                             totalAnalyzed |-> 0,
                                             totalProfitable |-> 0, errors |-> 0]]
                /\ UNCHANGED poolVars
           ELSE /\ phase' = "analysis"
                /\ SpawnWorkers(eligibleItems, ItemConcurrency)
                /\ UNCHANGED response
    /\ UNCHANGED <<profitVars, stages, params, rawItems, parsedItems>>

\* processItem, line 116: `await getValuation(item)` of worker w's item resolves
\* with estimatedValue v; up to the return of the placeholder or to the await of
\* getResaleAdvice
ValuationDone(w, v) ==
    /\ phase = "analysis"
    /\ pc[w] = "valuation"
    /\ LET item == items[cur[w] + 1]
       IN  IF v = 0
           THEN /\ WorkerResume(w, processItem(item, v, params, "none"))
                /\ UNCHANGED <<val, stages>>
           ELSE /\ val' = [val EXCEPT ![w] = v]
                /\ pc' = [pc EXCEPT ![w] = "advice"]
                /\ stages' = [stages EXCEPT ![item.id] =
                                @ \cup {"calculateProfit", "getResaleAdvice"}]
                /\ UNCHANGED <<results, failed, cur, index, calls>>
    /\ UNCHANGED <<items, concurrency, profitVars, phase, params, rawItems,
                   parsedItems, response>>

\* processItem, lines 158-160: `await getResaleAdvice(item, valuation)` resolves
\* and processItem returns the AnalyzedItem
AdviceDone(w, outcome) ==
    /\ phase = "analysis"
    /\ pc[w] = "advice"
    /\ WorkerResume(w, processItem(items[cur[w] + 1], val[w], params, outcome))
    /\ val' = [val EXCEPT ![w] = 0]
    /\ UNCHANGED <<items, concurrency, profitVars, postVars>>

\* POST, lines 273-292: the pool returned; sort, count, respond
Respond ==
    /\ phase = "analysis"
    /\ AllWorkersDone
    /\ LET analyzedItems == SortByProfit(results)
       IN  response' =
             [success |-> TRUE, status |-> 200, items |-> analyzedItems,
              summary |-> [totalScraped |-> Len(rawItems),
                           totalAnalyzed |-> Len(items),
                           totalProfitable |->
                               Len(SelectSeq(analyzedItems, LAMBDA a : a.meetsCriteria)),
                           errors |-> Len(items) - Len(analyzedItems)]]
    /\ phase' = "responded"
    /\ UNCHANGED <<poolVars, profitVars, stages, params, rawItems, parsedItems>>

Next ==
    \/ Validate /\ UNCHANGED <<classified, sideVars>>
    \/ \E resps \in [1..Len(rawItems) -> ClassifierResponses] :
         Extract(resps) /\ UNCHANGED sideVars
    \/ Filter /\ UNCHANGED <<classified, sideVars>>
    \/ \E w \in Workers, v \in PipelineValues :
         ValuationDone(w, v) /\ UNCHANGED <<classified, sideVars>>
    \/ \E w \in Workers, advice \in AdviceOutcomes :
         AdviceDone(w, advice) /\ UNCHANGED <<classified, sideVars>>
    \/ Respond /\ UNCHANGED <<classified, sideVars>>

Spec == Init /\ [][Next]_vars

InitPool ==
    /\ phase = "idle"
    /\ PoolIdle
    /\ pin = NoResult /\ pout = NoResult /\ prev = NoResult
    /\ stages = <<>> /\ params = NoResult /\ rawItems = <<>> /\ parsedItems = <<>>
    /\ response = NoResult
    /\ classified = <<>>
    /\ FetchIdle /\ ValuationIdle /\ ParseIdle /\ ScrapeIdle

NextPool ==
    \/ \E n \in 0..MaxItems, K \in 1..MaxWorkers :
         PoolCall(n, K) /\ UNCHANGED <<classified, sideVars>>
    \/ \E w \in Workers, ok \in BOOLEAN :
         ProcessorReturns(w, ok) /\ UNCHANGED <<classified, sideVars>>
    \/ PoolReturn /\ UNCHANGED <<classified, sideVars>>

SpecPool == InitPool /\ [][NextPool]_vars

NextProfit ==
    \/ Calculate /\ UNCHANGED <<poolVars, postVars, classified, sideVars>>
    \/ \E b \in Bids : Rebid(b) /\ UNCHANGED <<poolVars, postVars, classified, sideVars>>

SpecProfit == InitProfit /\ [][NextProfit]_vars

-----------------------------------------------------------------------------
(* src/services/categoryAnalyzer.ts: fetchWithRetry                        *)

MaxRetries == 2        \* largest `retries` argument of the model

\* how an attempt can fail: fetch() rejects, the timer aborts the pending fetch(),
\* response.text() rejects, or the status read after the body is not a success
FailureKinds == {"network", "abort", "body", "status"}

\* mutant: the last attempt is taken to be the one before it
IsLastAttemptEarly(i, r) == i >= r - 1

\* `if (i === retries) throw error`
IsLastAttempt(i, r) == i = r

\* the most clock ticks followed within one attempt
MaxElapsed == 3

\* SCRAPE_CONFIG.fetchTimeout: 10000 ms in the code, FetchTimeout ticks of the
\* model's clock
FetchTimeout == 2

\* after `await response.text()`: `if (!response.ok) throw ...`, else `return text`
AfterBody(ok) == IF ok THEN "return" ELSE "throw"

\* the catch block of attempt `attempt`, entered with a failure of the given kind
AttemptFailed(kind) ==
    /\ attemptLog' = Append(attemptLog, kind)
    /\ fetchPc' = IF IsLastAttempt(attempt, retries) THEN "thrown" ELSE "delay"
    /\ UNCHANGED <<retries, attempt, waits, elapsed>>

\* `await fetch(url, ...)` rejects: a network error; the catch block does not
\* clear the timer of the attempt
FetchRejects ==
    /\ fetchPc = "fetch"
    /\ AttemptFailed("network")
    /\ UNCHANGED <<timers, events>>

\* the timer set for SCRAPE_CONFIG.fetchTimeout fires while fetch() is pending:
\* controller.abort() rejects it
FetchAborted ==
    /\ fetchPc = "fetch"
    /\ attempt \in timers
    /\ elapsed = FetchTimeout
    /\ timers' = timers \ {attempt}
    /\ AttemptFailed("abort")
    /\ UNCHANGED events

\* the timer of attempt i fires after the fetch() of that attempt has settled:
\* it aborts the controller of attempt i, which nothing listens to any more
StaleTimerFires(i) ==
    /\ i \in timers
    /\ i # attempt \/ fetchPc # "fetch"
    /\ timers' = timers \ {i}
    /\ UNCHANGED <<retries, attempt, fetchPc, elapsed, events, attemptLog, waits>>

\* `await fetch(url, ...)` resolves with the response headers; clearTimeout,
\* then `await response.text()` is pending
HeadersArrive(ok) ==
    /\ fetchPc = "fetch"
    /\ fetchPc' = IF ok THEN "body" ELSE "errorBody"
    /\ timers' = timers \ {attempt}
    /\ events' = <<IF ok THEN "okStatus" ELSE "errorStatus">>
    /\ UNCHANGED <<retries, attempt, attemptLog, waits, elapsed>>

\* `await response.text()` resolves: `if (!response.ok) throw`, else `return text`
BodyRead ==
    /\ fetchPc \in {"body", "errorBody"}
    /\ events' = Append(events, "body")
    /\ IF AfterBody(fetchPc = "body") = "return"
       THEN /\ attemptLog' = Append(attemptLog, "ok")
            /\ fetchPc' = "returned"
            /\ UNCHANGED <<retries, attempt, waits, elapsed>>
       ELSE AttemptFailed("status")
    /\ UNCHANGED timers

\* `await response.text()` rejects
BodyFails ==
    /\ fetchPc \in {"body", "errorBody"}
    /\ AttemptFailed("body")
    /\ UNCHANGED <<timers, events>>

\* time passes while fetch() or response.text() is pending; the timer of a
\* pending fetch() fires when FetchTimeout ticks have passed
Tick ==
    /\ fetchPc \in {"fetch", "body", "errorBody"}
    /\ elapsed < MaxElapsed
    /\ (fetchPc = "fetch" /\ attempt \in timers) => elapsed < FetchTimeout
    /\ elapsed' = elapsed + 1
    /\ UNCHANGED <<retries, attempt, fetchPc, timers, events, attemptLog, waits>>

\* the retry delay of SCRAPE_CONFIG.retryDelay has passed: `i++`, the loop test
\* `i <= retries` holds (the last attempt threw), the next attempt starts with a
\* controller and a timer of its own
DelayElapsed ==
    /\ fetchPc = "delay"
    /\ waits' = waits + 1
    /\ attempt' = attempt + 1
    /\ fetchPc' = IF attempt + 1 <= retries THEN "fetch" ELSE "thrown"
    /\ timers' = IF attempt + 1 <= retries THEN timers \cup {attempt + 1} ELSE timers
    /\ elapsed' = 0
    /\ events' = <<>>
    /\ UNCHANGED <<retries, attemptLog>>

\* fetchWithRetry(url, retries) is called: the first attempt is under way
InitFetch ==
    /\ retries \in 0..MaxRetries
    /\ attempt = 0
    /\ fetchPc = "fetch"
    /\ elapsed = 0
    /\ timers = {0}
    /\ events = <<>>
    /\ attemptLog = <<>>
    /\ waits = 0
    /\ PipelineIdle /\ ValuationIdle /\ ParseIdle /\ ScrapeIdle

fetchFrame == <<profitVars, poolVars, postVars, classified, valuationVars, parseVars,
                scrapeVars>>

NextFetch ==
    \/ FetchRejects /\ UNCHANGED fetchFrame
    \/ FetchAborted /\ UNCHANGED fetchFrame
    \/ \E ok \in BOOLEAN : HeadersArrive(ok) /\ UNCHANGED fetchFrame
    \/ BodyRead /\ UNCHANGED fetchFrame
    \/ BodyFails /\ UNCHANGED fetchFrame
    \/ DelayElapsed /\ UNCHANGED fetchFrame
    \/ Tick /\ UNCHANGED fetchFrame
    \/ \E i \in 0..MaxRetries : StaleTimerFires(i) /\ UNCHANGED fetchFrame

\* every awaited operation of an attempt settles and every timer fires
SpecFetch == InitFetch /\ [][NextFetch]_vars /\ WF_vars(NextFetch)

-----------------------------------------------------------------------------
(* src/unnamed/part_015: getValuation                                      *)

MaxSnippets == 6       \* most organic results one search returns in the model

\* the three entries of `searchQueries`
SearchQueries == 3

\* `result.organic.slice(0, 5)`
SnippetsPerQuery == 5

\* how searchSerper(query) can end: it throws (no key, fetch rejects, status not
\* ok, body no JSON), it returns a result without `organic`, or one with n
\* organic entries
SearchFailed == [failed |-> TRUE]
NoOrganic == [noOrganic |-> TRUE]
SearchOutcomes == {SearchFailed, NoOrganic} \cup {[organic |-> n] : n \in 0..MaxSnippets}

\* the number of strings one search adds to `searchResults`
SnippetsOf(outcome) ==
    IF outcome \in {SearchFailed, NoOrganic} THEN 0
    ELSE Min(outcome.organic, SnippetsPerQuery)

\* mutant: a failed search is not caught inside the loop
AfterSearchNoInnerCatch(outcome) == IF outcome = SearchFailed THEN "caught" ELSE "delay"

\* where getValuation continues after a search ended: the catch inside the loop
\* swallows a failure, the 200 ms pause follows in every case
AfterSearch(outcome) == "delay"

\* what the synthesis call can give: a failure (the call throws, its content is
\* no text or no JSON), or the parsed JSON; 0 stands for an absent or zero
\* estimatedValue, "absent" for a missing confidence
SynthesisFailure == [failure |-> TRUE]
SynthesisResponses ==
    {SynthesisFailure} \cup
    [estimatedValue : {0, 150}, confidence : {"absent", "low", "high"}]

\* the placeholder returned when `searchResults.length === 0`
NoEvidenceValuation ==
    [estimatedValue |-> 0, confidence |-> "low", reasoning |-> "No search results found"]

\* the placeholder returned by the outer catch
FailedValuation ==
    [estimatedValue |-> 0, confidence |-> "low", reasoning |-> "Valuation failed"]

\* `parsed.estimatedValue || 0`, `parsed.confidence || 'low'`
SynthesizedValuation(parsed) ==
    [estimatedValue |-> parsed.estimatedValue,
     confidence |-> IF parsed.confidence = "absent" THEN "low" ELSE parsed.confidence,
     reasoning |-> "synthesis"]

\* `await searchSerper(query)` settles for the query issued last
SearchReturns(outcome) ==
    /\ valPc = "search"
    /\ queryLog' = Append(queryLog, outcome)
    /\ searchResults' = searchResults + SnippetsOf(outcome)
    /\ IF AfterSearch(outcome) = "caught"
       THEN valPc' = "returned" /\ valuation' = FailedValuation
       ELSE valPc' = AfterSearch(outcome) /\ UNCHANGED valuation
    /\ UNCHANGED <<query, synthesis>>

\* the 200 ms pause has passed: the next query is issued, or the loop has ended
\* and getValuation returns the placeholder or issues the synthesis call
SearchDelayElapsed ==
    /\ valPc = "delay"
    /\ IF query < SearchQueries
       THEN /\ query' = query + 1
            /\ valPc' = "search"
            /\ UNCHANGED <<synthesis, valuation>>
       ELSE IF searchResults = 0
       THEN /\ valPc' = "returned"
            /\ valuation' = NoEvidenceValuation
            /\ UNCHANGED <<query, synthesis>>
       ELSE /\ valPc' = "synthesis"
            /\ synthesis' = synthesis + 1
            /\ UNCHANGED <<query, valuation>>
    /\ UNCHANGED <<searchResults, queryLog>>

\* `await anthropic.messages.create(...)` settles
SynthesisReturns(resp) ==
    /\ valPc = "synthesis"
    /\ valPc' = "returned"
    /\ valuation' = IF resp = SynthesisFailure THEN FailedValuation
                    ELSE SynthesizedValuation(resp)
    /\ UNCHANGED <<query, searchResults, queryLog, synthesis>>

\* getValuation(item) is called: the first search query is under way
InitValuation ==
    /\ query = 1
    /\ searchResults = 0
    /\ valPc = "search"
    /\ queryLog = <<>>
    /\ synthesis = 0
    /\ valuation = NoResult
    /\ PipelineIdle /\ FetchIdle /\ ParseIdle /\ ScrapeIdle

valuationFrame == <<profitVars, poolVars, postVars, classified, fetchVars, parseVars,
                    scrapeVars>>

NextValuation ==
    \/ \E outcome \in SearchOutcomes : SearchReturns(outcome) /\ UNCHANGED valuationFrame
    \/ SearchDelayElapsed /\ UNCHANGED valuationFrame
    \/ \E resp \in SynthesisResponses : SynthesisReturns(resp) /\ UNCHANGED valuationFrame

SpecValuation == InitValuation /\ [][NextValuation]_vars

-----------------------------------------------------------------------------
(* src/services/categoryAnalyzer.ts: getAuctionItems on one fetched page.   *)
(* A page is what the three strategies find on it: the blocks of the       *)
(* structural matcher, the windows around the item links, and the lot      *)
(* anchors of the last fallback.  A candidate is the item URL the code     *)
(* reads from it and whether its text holds a closed-auction phrase; every *)
(* candidate of the model has a text long enough to be kept.               *)

MaxPageCands == 2      \* most candidates one strategy finds on a page

\* the URLs of two items, /auction/<id>/item/1 and /auction/<id>/item/2
ItemUrls == {[kind |-> "item", n |-> u] : u \in {1, 2}}
Candidates == [url : ItemUrls, closed : BOOLEAN]
CandidateLists == SeqsUpTo(Candidates, MaxPageCands)

\* The windows of the second strategy: one per unique item link, in page order,
\* holding the 3000 characters before the link and the 2000 after it.  link is
\* the link the window was cut around, url the first item link inside the
\* window, which is the one the code reads: the link itself, or a link met
\* earlier on the page when that lies less than 3000 characters before it.
WindowLists ==
    {w \in SeqsUpTo([link : ItemUrls, url : ItemUrls, closed : BOOLEAN], MaxPageCands) :
        /\ \A j, k \in 1..Len(w) : j # k => w[j].link # w[k].link
        /\ \A k \in 1..Len(w) : \E j \in 1..k : w[k].url = w[j].link}

\* a RawKBidItem: its url, and whether its text holds a closed-auction phrase
RawRecord(url, closed) == [url |-> url, closed |-> closed]

\* isClosed(textContent) on the text of a candidate
isClosed(cand) == cand.closed

\* the loop over blockMatches: `if (items.some(i => i.url === fullUrl)) continue`,
\* `if (isClosed(textContent)) continue`, `items.push(...)`
RECURSIVE BlockLoop(_, _)
BlockLoop(blocks, acc) ==
    IF blocks = <<>> THEN acc
    ELSE LET b == Head(blocks)
         IN  IF \E k \in 1..Len(acc) : acc[k].url = b.url
             THEN BlockLoop(Tail(blocks), acc)
             ELSE IF isClosed(b) THEN BlockLoop(Tail(blocks), acc)
             ELSE BlockLoop(Tail(blocks), Append(acc, RawRecord(b.url, b.closed)))

\* the loop over the matches of lotRegex: `if (isClosed(text)) continue`,
\* `items.push(...)`, without a test for a URL already pushed
RECURSIVE LotLoop(_, _)
LotLoop(lots, acc) ==
    IF lots = <<>> THEN acc
    ELSE LET l == Head(lots)
         IN  IF isClosed(l) THEN LotLoop(Tail(lots), acc)
             ELSE LotLoop(Tail(lots), Append(acc, RawRecord(l.url, l.closed)))

\* blockMatches: the structural blocks, or the windows when there is no block
BlockMatches(pg) == IF pg.blocks # <<>> THEN pg.blocks ELSE pg.windows

\* mutant: the lot anchors are always searched
FallbackRunsAlways(kept) == TRUE

\* `if (items.length === 0)`: the lot anchors are searched
FallbackRuns(kept) == kept = <<>>

\* the records getAuctionItems returns for a page it fetched
getAuctionItems(pg) ==
    LET found == BlockLoop(BlockMatches(pg), <<>>)
    IN  IF FallbackRuns(found) THEN LotLoop(pg.lots, found) ELSE found

\* the strategies that run on a page: the structural blocks always, the windows
\* when there is no block, the lot anchors when the loop over them kept nothing
StrategiesRun(pg) ==
    {1} \cup (IF pg.blocks = <<>> THEN {2} ELSE {})
        \cup (IF FallbackRuns(BlockLoop(BlockMatches(pg), <<>>)) THEN {3} ELSE {})

\* the strategies whose candidates gave a record that was pushed
StrategiesPushed(pg) ==
    LET found == BlockLoop(BlockMatches(pg), <<>>)
    IN  (IF found # <<>> THEN {IF pg.blocks # <<>> THEN 1 ELSE 2} ELSE {})
        \cup (IF FallbackRuns(found) /\ LotLoop(pg.lots, <<>>) # <<>> THEN {3} ELSE {})

AllPages == [blocks : CandidateLists, windows : WindowLists, lots : CandidateLists]

\* The pages of the model.  The windows are not read when there is a block, and
\* the lot anchors are not read when the first loop kept a record, so such pages
\* are listed once, with the unread part empty.
Pages ==
    {pg \in AllPages :
        /\ pg.blocks # <<>> => pg.windows = <<>>
        /\ BlockLoop(BlockMatches(pg), <<>>) # <<>> => pg.lots = <<>>}

\* how a call getAuctionItems(url, ...) can end: fetchWithRetry threw and the
\* catch returns [], or the page was fetched and searched
PageFetchFailed == [fetched |-> FALSE, items |-> <<>>]
PageOutcomes == {PageFetchFailed} \cup {[fetched |-> TRUE, items |-> getAuctionItems(pg)] : pg \in Pages}

\* A listing longer than the pages above: the items of an auction that shows
\* them all on one page, MaxListing open items of distinct URLs
MaxListing == 3
FullListing ==
    [fetched |-> TRUE,
     items |-> [k \in 1..MaxListing |-> RawRecord([kind |-> "item", n |-> k], FALSE)]]

\* how getAuctionItems can end for one of the URL variants of a single auction
VariantOutcomes == PageOutcomes \cup {FullListing}

\* getAuctionItems on its own: a page has been fetched
InitPage ==
    /\ html \in AllPages
    /\ extracted = <<>>
    /\ ran = {}
    /\ pushed = {}
    /\ PipelineIdle /\ FetchIdle /\ ValuationIdle /\ ParseIdle /\ CrawlIdle

\* the strategies run on the page and getAuctionItems returns
ExtractPage ==
    /\ ran = {}
    /\ extracted' = getAuctionItems(html)
    /\ ran' = StrategiesRun(html)
    /\ pushed' = StrategiesPushed(html)
    /\ UNCHANGED html

NextPage ==
    ExtractPage
      /\ UNCHANGED <<profitVars, poolVars, postVars, classified, fetchVars,
                     valuationVars, parseVars, crawlVars>>

SpecPage == InitPage /\ [][NextPage]_vars

-----------------------------------------------------------------------------
(* src/app/api/scrape-items/route.ts: POST, and scrapeKBid and              *)
(* scrapeSingleAuction of src/services/categoryAnalyzer.ts                  *)

MaxAuctions == 3       \* most auctions getAuctionList discovers
MaxRequested == 2      \* largest max_items of a request
MaxPages == 2          \* largest page number found in the pagination links

\* SCRAPE_CONFIG.maxItems
DefaultMaxItems == 200

\* SCRAPE_CONFIG.parallelAuctions: the code's value is 5; the model scales it to
\* the lists it explores, so that discovery can select more auctions than that
ParallelAuctions == 2

\* `openAuctions.slice(0, 10)` and `Math.min(maxPage, 10)`
OpenAuctionsCap == 10
PageCap == 10

\* `if (items.length >= 50) break`: the code's literal is 50; the model scales it
\* to the pages it explores, which hold at most MaxPageCands records
EnoughItems == 2

\* the four entries of `urlsToTry`
UrlVariants == 4

\* `params.max_items || SCRAPE_CONFIG.maxItems`; 0 stands for 0 and for absent
EffectiveMax(requested) == IF requested = 0 THEN DefaultMaxItems ELSE requested

\* mutant: the cap is not applied
SliceNone(seq, n) == seq

\* seq.slice(0, n) for n >= 0
Slice(seq, n) == SubSeq(seq, 1, Min(n, Len(seq)))

\* mutant: the list of the variant tried last is kept
RetainsLast(found, kept) == TRUE

\* `if (items.length > allItems.length) allItems = items`
Retains(found, kept) == Len(found) > Len(kept)

\* mutant: nothing is filtered
UniqueItemsAll(seq) == seq

\* allItems.filter(item => { key = item.url || ...; if (seen.has(key)) return false;
\* seen.add(key); return true }): every record of the model has an url
RECURSIVE UniqueFrom(_, _)
UniqueFrom(seq, seen) ==
    IF seq = <<>> THEN <<>>
    ELSE IF Head(seq).url \in seen THEN UniqueFrom(Tail(seq), seen)
    ELSE <<Head(seq)>> \o UniqueFrom(Tail(seq), seen \cup {Head(seq).url})

UniqueItems(seq) == UniqueFrom(seq, {})

\* results.flat()
RECURSIVE Flat(_)
Flat(lists) == IF lists = <<>> THEN <<>> ELSE Head(lists) \o Flat(Tail(lists))

\* How the end time of a discovered auction relates to now and to the window of
\* the request: not parsed (endDateTime null), before now, not before now and
\* inside [minEndDate, maxEndDate], or after now and outside the window.
EndClasses == {"unparsed", "past", "inWindow", "outside"}

\* what getAuctionList can return: auctions of distinct ids, in page order
DiscoveredLists ==
    UNION {{[k \in 1..n |-> [id |-> k, end |-> f[k]]] : f \in [1..n -> EndClasses]} :
             n \in 0..MaxAuctions}

\* scrapeKBid, lines 670-683
FilteredAuctions(found) == SelectSeq(found, LAMBDA a : a.end \in {"unparsed", "inWindow"})
\* mutant: the fallback takes every discovered auction
OpenAuctionsAll(found) == found

OpenAuctions(found) == SelectSeq(found, LAMBDA a : a.end # "past")
AuctionsToScrape(found) ==
    IF FilteredAuctions(found) # <<>> THEN FilteredAuctions(found)
    ELSE Slice(OpenAuctions(found), OpenAuctionsCap)

\* `auctionsToScrape.slice(0, Math.min(auctionsToScrape.length, parallelAuctions))`
AuctionBatch(sel) == Slice(sel, Min(Len(sel), ParallelAuctions))

\* the fallback of scrapeKBid: the auction links as items; flags[k] tells whether
\* the title of the k-th auction holds a closed-auction phrase
AuctionLinks(sel, flags) ==
    [k \in 1..Len(sel) |-> RawRecord([kind |-> "auction", n |-> sel[k].id], flags[k])]

ScrapeRequests ==
    {r \in [max_items : 0..MaxRequested, single : BOOLEAN, validUrl : BOOLEAN] :
        ~r.single => r.validUrl}

\* the responses of POST: the records, or the 500 of its catch
ScrapeSuccess(recs) == [success |-> TRUE, items |-> recs, error |-> "none"]
ScrapeFailure(cause) == [success |-> FALSE, items |-> <<>>, error |-> cause]

\* the request arrives: POST, then scrapeKBid or scrapeSingleAuction up to its
\* first await, or to the throw for an URL that is no auction URL; site is what
\* the auction's site answers to each of the four URLs of `urlsToTry`
StartScrape(site) ==
    /\ scrapePc = "received"
    /\ IF request.single
       THEN IF request.validUrl
            THEN /\ scrapePc' = "variants"
                 /\ served' = site
                 /\ variant' = 1
                 /\ UNCHANGED scraped
            ELSE /\ scrapePc' = "responded"
                 /\ scraped' = ScrapeFailure("invalidUrl")
                 /\ UNCHANGED <<served, variant>>
       ELSE /\ scrapePc' = "index"
            /\ UNCHANGED <<served, variant, scraped>>
    /\ UNCHANGED <<request, auctions, toScrape, inFlight, pageItems, allItems, page,
                   maxPage, pageFailures>>

\* getAuctionList: fetchWithRetry of the auction index throws
IndexFails ==
    /\ scrapePc = "index"
    /\ scrapePc' = "responded"
    /\ scraped' = ScrapeFailure("index")
    /\ UNCHANGED <<request, served, auctions, toScrape, inFlight, pageItems, variant, allItems,
                   page, maxPage, pageFailures>>

\* getAuctionList returns `found`; scrapeKBid selects the auctions and starts
\* getAuctionItems on every entry of auctionBatch
IndexDone(found) ==
    /\ scrapePc = "index"
    /\ auctions' = found
    /\ IF found = <<>>
       THEN /\ scrapePc' = "responded"
            /\ scraped' = ScrapeFailure("noAuctions")
            /\ UNCHANGED <<toScrape, inFlight, pageItems>>
       ELSE /\ toScrape' = AuctionsToScrape(found)
            /\ inFlight' = 1..Len(AuctionBatch(AuctionsToScrape(found)))
            /\ pageItems' = [k \in 1..Len(AuctionBatch(AuctionsToScrape(found))) |-> <<>>]
            /\ scrapePc' = "auctions"
            /\ UNCHANGED scraped
    /\ UNCHANGED <<request, served, variant, allItems, page, maxPage, pageFailures>>

\* getAuctionItems of entry k of auctionBatch resolves
AuctionPageDone(k, out) ==
    /\ scrapePc = "auctions"
    /\ k \in inFlight
    /\ inFlight' = inFlight \ {k}
    /\ pageItems' = [pageItems EXCEPT ![k] = out.items]
    /\ pageFailures' = IF out.fetched THEN pageFailures
                       ELSE pageFailures \cup {[kind |-> "auction", n |-> k]}
    /\ UNCHANGED <<scrapePc, request, served, auctions, toScrape, variant, allItems, page,
                   maxPage, scraped>>

\* `await Promise.all(auctionPromises)` resolves: merge, deduplicate, cap, or
\* fall back to the auction links.  Whether the title of an auction holds a
\* closed-auction phrase is read nowhere; it is drawn here, where the title
\* becomes the text of a record.
MergeAuctions(flags) ==
    /\ scrapePc = "auctions"
    /\ inFlight = {}
    /\ LET uniqueItems == UniqueItems(Flat(pageItems))
           maxItems == EffectiveMax(request.max_items)
       IN  scraped' = ScrapeSuccess(
               IF uniqueItems = <<>>
               THEN AuctionLinks(Slice(toScrape, maxItems), flags)
               ELSE Slice(uniqueItems, maxItems))
    /\ scrapePc' = "responded"
    /\ UNCHANGED <<request, served, auctions, toScrape, inFlight, pageItems, variant, allItems,
                   page, maxPage, pageFailures>>

\* scrapeKBid in single-URL mode, on what scrapeSingleAuction returned:
\* `maxItems > 0 ? items.slice(0, maxItems) : items`
SingleResult(all) ==
    LET uniqueItems == UniqueItems(all)
        maxItems == EffectiveMax(request.max_items)
    IN  ScrapeSuccess(IF maxItems > 0 THEN Slice(uniqueItems, maxItems) ELSE uniqueItems)

\* getAuctionItems of the URL variant tried resolves
VariantDone(out) ==
    /\ scrapePc = "variants"
    /\ out = served[variant]
    /\ allItems' = IF Retains(out.items, allItems) THEN out.items ELSE allItems
    /\ pageFailures' = IF out.fetched THEN pageFailures
                       ELSE pageFailures \cup {[kind |-> "variant", n |-> variant]}
    /\ IF Len(out.items) >= EnoughItems \/ variant = UrlVariants
       THEN scrapePc' = "probe" /\ UNCHANGED variant
       ELSE variant' = variant + 1 /\ UNCHANGED scrapePc
    /\ UNCHANGED <<request, served, auctions, toScrape, inFlight, pageItems, page, maxPage,
                   scraped>>

\* `urlsToTry` is not read after the loop over it: both ways out of the probe
\* drop what the site served for the variants.
\* `await fetchWithRetry(baseUrl)`, the fetch that looks for pagination links,
\* throws: the catch of scrapeSingleAuction throws in its turn
ProbeFails ==
    /\ scrapePc = "probe"
    /\ pageFailures' = pageFailures \cup {[kind |-> "probe", n |-> 1]}
    /\ scrapePc' = "responded"
    /\ scraped' = ScrapeFailure("probe")
    /\ served' = <<>>
    /\ UNCHANGED <<request, auctions, toScrape, inFlight, pageItems, variant, allItems,
                   page, maxPage>>

\* `await fetchWithRetry(baseUrl)` returns a page whose largest page number is mp
ProbeDone(mp) ==
    /\ scrapePc = "probe"
    /\ maxPage' = mp
    /\ IF mp > 1
       THEN /\ page' = 2
            /\ scrapePc' = "pages"
            /\ UNCHANGED scraped
       ELSE /\ scrapePc' = "responded"
            /\ scraped' = SingleResult(allItems)
            /\ UNCHANGED page
    /\ served' = <<>>
    /\ UNCHANGED <<request, auctions, toScrape, inFlight, pageItems, variant, allItems,
                   pageFailures>>

\* getAuctionItems of the numbered page resolves
PageDone(out) ==
    /\ scrapePc = "pages"
    /\ allItems' = allItems \o out.items
    /\ pageFailures' = IF out.fetched THEN pageFailures
                       ELSE pageFailures \cup {[kind |-> "page", n |-> page]}
    /\ IF page < Min(maxPage, PageCap)
       THEN /\ page' = page + 1
            /\ UNCHANGED <<scrapePc, scraped>>
       ELSE /\ scrapePc' = "responded"
            /\ scraped' = SingleResult(allItems \o out.items)
            /\ UNCHANGED page
    /\ UNCHANGED <<request, served, auctions, toScrape, inFlight, pageItems, variant, maxPage>>

\* a scrape request arrives
InitScrape ==
    /\ scrapePc = "received"
    /\ request \in ScrapeRequests
    /\ auctions = <<>>
    /\ toScrape = <<>>
    /\ inFlight = {}
    /\ pageItems = <<>>
    /\ served = <<>>
    /\ variant = 0
    /\ allItems = <<>>
    /\ page = 0
    /\ maxPage = 0
    /\ scraped = NoResult
    /\ pageFailures = {}
    /\ PipelineIdle /\ FetchIdle /\ ValuationIdle /\ ParseIdle /\ PageIdle

scrapeFrame == <<profitVars, poolVars, postVars, classified, fetchVars, valuationVars,
                 parseVars, pageVars>>

NextScrape ==
    \/ \E site \in [1..UrlVariants -> VariantOutcomes] : StartScrape(site) /\ UNCHANGED scrapeFrame
    \/ IndexFails /\ UNCHANGED scrapeFrame
    \/ \E found \in DiscoveredLists : IndexDone(found) /\ UNCHANGED scrapeFrame
    \/ \E k \in 1..MaxAuctions, out \in PageOutcomes :
         AuctionPageDone(k, out) /\ UNCHANGED scrapeFrame
    \/ \E flags \in [1..MaxAuctions -> BOOLEAN] : MergeAuctions(flags) /\ UNCHANGED scrapeFrame
    \/ \E out \in VariantOutcomes : VariantDone(out) /\ UNCHANGED scrapeFrame
    \/ ProbeFails /\ UNCHANGED scrapeFrame
    \/ \E mp \in 1..MaxPages : ProbeDone(mp) /\ UNCHANGED scrapeFrame
    \/ \E out \in PageOutcomes : PageDone(out) /\ UNCHANGED scrapeFrame

SpecScrape == InitScrape /\ [][NextScrape]_vars

-----------------------------------------------------------------------------
(* Properties of processWithConcurrency (SpecPool)                         *)

RangeOf(seq) == {seq[k] : k \in 1..Len(seq)}

\* C1: under every interleaving each index 0..N-1 is passed to the processor
\* exactly once, never twice, no index outside 0..N-1 is passed, and the list
\* returned holds exactly one entry per item whose processor returned non-null:
\* N minus the number of failed items.
C1_EachIndexOnce ==
    /\ \A i \in Indexes : calls[i] <= 1
    /\ \A i \in Indexes : i >= Len(items) => calls[i] = 0
    /\ phase = "returned" =>
         /\ \A i \in 0..(Len(items) - 1) : calls[i] = 1
         /\ Len(response.items) = Len(items) - Cardinality(failed)
         /\ \A i \in 0..(Len(items) - 1) :
              Cardinality({k \in 1..Len(response.items) :
                             response.items[k] = [of |-> items[i + 1].id]})
                = IF i \in failed THEN 0 ELSE 1

C1_Witness ==
    /\ phase = "returned"
    /\ Len(items) = 3
    /\ concurrency = 2
    /\ Cardinality(failed) = 1
    /\ Len(response.items) = 2

-----------------------------------------------------------------------------
(* Properties of the batch analysis entry point (Spec)                     *)

Responded == phase = "responded" /\ response.success /\ response.items # <<>>

\* the results in the order of their items: what the pool accumulates when the
\* workers complete in index order
RECURSIVE InsertById(_, _)
InsertById(sorted, x) ==
    IF sorted = <<>> THEN <<x>>
    ELSE IF Head(sorted).item.id <= x.item.id
    THEN <<Head(sorted)>> \o InsertById(Tail(sorted), x)
    ELSE <<x>> \o sorted

RECURSIVE InItemOrder(_)
InItemOrder(seq) ==
    IF seq = <<>> THEN <<>>
    ELSE InsertById(InItemOrder(Tail(seq)), Head(seq))

ProfitsOf(seq) == [k \in 1..Len(seq) |-> seq[k].profit.expectedProfit]

PositionIn(seq, x) == CHOOSE k \in 1..Len(seq) : seq[k] = x

\* C2 as claimed: the returned sequence does not depend on the completion order
\* of the workers: it is the sequence returned when they complete in index order.
C2_OrderIndependent ==
    Responded => response.items = SortByProfit(InItemOrder(results))

\* C2 amended: the returned sequence holds the same items and the same sequence
\* of expectedProfit values whatever the completion order, in descending
\* expectedProfit; only items with equal expectedProfit can change places, and
\* they are returned in the order in which their analyses completed.
C2_SortedUpToTies ==
    Responded =>
        LET out == response.items
            ref == SortByProfit(InItemOrder(results))
        IN  /\ RangeOf(out) = RangeOf(ref)
            /\ Len(out) = Len(ref)
            /\ ProfitsOf(out) = ProfitsOf(ref)
            /\ \A k \in 1..(Len(out) - 1) :
                 out[k].profit.expectedProfit >= out[k + 1].profit.expectedProfit
            /\ \A k \in 1..Len(out) :
                 out[k] # ref[k] =>
                   \E j \in 1..Len(out) :
                     /\ j # k
                     /\ out[j].profit.expectedProfit = out[k].profit.expectedProfit
            /\ \A j, k \in 1..Len(out) :
                 (j < k /\ out[j].profit.expectedProfit = out[k].profit.expectedProfit)
                   => PositionIn(results, out[j]) < PositionIn(results, out[k])

\* two items of different expectedProfit, completed in ascending profit order
C2_Witness ==
    /\ Responded
    /\ Len(results) = 2
    /\ results[1].profit.expectedProfit < results[2].profit.expectedProfit
    /\ results[1].item.id > results[2].item.id

\* C3: an item the parser marked excluded is never passed to getValuation
\* (processItem is never called on it), calculateProfit or getResaleAdvice, and
\* is in no list of analyzed items, accumulated or returned.
C3_ExcludedNeverAnalyzed ==
    \A k \in 1..Len(parsedItems) :
        parsedItems[k].excluded =>
            LET id == parsedItems[k].id
            IN  /\ stages[id] = {}
                /\ \A i \in 1..Len(items) : items[i].id = id => calls[i - 1] = 0
                /\ \A w \in Workers :
                     pc[w] \in {"valuation", "advice"} => items[cur[w] + 1].id # id
                /\ \A r \in RangeOf(results) : r.item.id # id
                /\ response # NoResult =>
                     \A r \in RangeOf(response.items) : r.item.id # id

C3_Witness ==
    /\ Responded
    /\ \E k \in 1..Len(parsedItems) : parsedItems[k].excluded
    /\ \E r \in RangeOf(response.items) : r.valuation # 0

ReturnedItems ==
    RangeOf(results) \cup (IF response = NoResult THEN {} ELSE RangeOf(response.items))

CriteriaFormula(r) ==
    /\ r.profit.expectedProfit >= 100 * params.D
    /\ r.profit.expectedROI >= 100 * params.R
    /\ r.item.currentBid <= r.profit.maxBid

\* C4 as claimed: for every item processItem returns, zero valuations included,
\* meetsCriteria holds iff expectedProfit >= D, expectedROI >= R and
\* currentBid <= maxBid.
C4_CriteriaIff ==
    \A r \in ReturnedItems : r.meetsCriteria <=> CriteriaFormula(r)

\* C4 amended: the equivalence holds for every returned item whose valuation is
\* not zero; an item whose valuation is zero has meetsCriteria false, whatever
\* the targets and its bid.
C4_CriteriaIffValued ==
    \A r \in ReturnedItems :
        IF r.valuation = 0 THEN ~r.meetsCriteria
        ELSE r.meetsCriteria <=> CriteriaFormula(r)

C4_Witness ==
    /\ Responded
    /\ \E r \in RangeOf(response.items) : r.valuation # 0 /\ r.meetsCriteria
    /\ \E r \in RangeOf(response.items) : r.valuation # 0 /\ ~r.meetsCriteria

\* C5: a returned item whose currentBid is above its maxBid has meetsCriteria false.
C5_OverbidNeverMeets ==
    \A r \in ReturnedItems : r.item.currentBid > r.profit.maxBid => ~r.meetsCriteria

\* a valued item that reaches both targets and is overbid
C5_Witness ==
    /\ Responded
    /\ \E r \in RangeOf(response.items) :
         /\ r.valuation # 0
         /\ r.item.currentBid > r.profit.maxBid
         /\ r.profit.expectedProfit >= 100 * params.D
         /\ r.profit.expectedROI >= 100 * params.R

-----------------------------------------------------------------------------
(* Properties of calculateProfit (SpecProfit)                              *)

\* The profit model as the specification states it, in cents, for the call in
\* pin: N = V - V*f - S, bid_for_dollar = (N - D)/(1 + p) and
\* bid_for_roi = N/((1 + p)(1 + R/100)) with p = 10%, as the fractions
\* SpecDollar/SpecDen and SpecROI/SpecDen.
SpecN == 100 * pin.V - pin.V * pin.fee - ShippingEstimate(pin.sizeClass)
SpecDen == 11 * (100 + pin.R)
SpecDollar == 10 * (SpecN - 100 * pin.D) * (100 + pin.R)
SpecROI == 1000 * SpecN
SpecCeiling == Min(SpecDollar, SpecROI)

\* x cents is n / d rounded to cents
IsRounded(x, n, d) == 2 * (x * d - n) <= d /\ 2 * (n - x * d) <= d

\* x cents is at most n / d, up to cent rounding
AtMostRounded(x, n, d) == 2 * (x * d - n) <= d

\* C6 as claimed: maxBid is max(0, min(bid_for_dollar, bid_for_roi)) rounded to
\* cents, is never negative and never exceeds either ceiling (up to rounding).
C6_MinOfCeilings ==
    pout # NoResult =>
        /\ IsRounded(pout.maxBid, Max(0, SpecCeiling), SpecDen)
        /\ pout.maxBid >= 0
        /\ AtMostRounded(pout.maxBid, SpecDollar, SpecDen)
        /\ AtMostRounded(pout.maxBid, SpecROI, SpecDen)

\* C6 amended: maxBid is max(0, min(bid_for_dollar, bid_for_roi)) rounded to
\* cents and is never negative; it exceeds no ceiling that is not negative (up
\* to rounding), and it is 0, above the lower ceiling, when a ceiling is negative.
C6_ClampedMinOfCeilings ==
    pout # NoResult =>
        /\ IsRounded(pout.maxBid, Max(0, SpecCeiling), SpecDen)
        /\ pout.maxBid >= 0
        /\ SpecDollar >= 0 => AtMostRounded(pout.maxBid, SpecDollar, SpecDen)
        /\ SpecROI >= 0 => AtMostRounded(pout.maxBid, SpecROI, SpecDen)
        /\ SpecCeiling < 0 => pout.maxBid = 0

\* a call whose dollar ceiling binds and one ceiling of which is negative
C6_Witness ==
    /\ pout # NoResult
    /\ SpecDollar < 0
    /\ SpecROI > 0
    /\ pout.maxBid = 0

\* a bid of b cents reaches the dollar-profit target and the ROI target
ReachesTargets(b) ==
    /\ 10 * SpecN - 11 * b >= 1000 * pin.D
    /\ 100 * (10 * SpecN - 11 * b) >= pin.R * 11 * b

LargerBids == {pout.maxBid + k : k \in 1..(MaxBidCents + 1)}

\* C7 as claimed: at maxBid the expected profit is at least D and the expected
\* ROI at least R, up to rounding, and no larger bid reaches both targets.
C7_MaxBidReachesTargets ==
    pout # NoResult =>
        /\ pout.expectedProfit >= 100 * pin.D - 1
        /\ pout.expectedROI >= 100 * pin.R - 1
        /\ \A b \in LargerBids : ~ReachesTargets(b)

\* C7 amended: when both ceilings are positive, the expected profit at maxBid
\* is at least D and the expected ROI at least R, up to rounding; in every case
\* (R > -100) no bid larger than maxBid reaches both targets.  When a ceiling
\* is negative, maxBid is 0 and expectedProfit is the net proceeds, below D or
\* with an expectedROI of 0.
C7_MaxBidReachesTargetsIfPositive ==
    pout # NoResult =>
        /\ SpecCeiling > 0 =>
             /\ pout.expectedProfit >= 100 * pin.D - 1
             /\ pout.expectedROI >= 100 * pin.R - 1
        /\ \A b \in LargerBids : ~ReachesTargets(b)
        /\ SpecCeiling < 0 =>
             /\ pout.maxBid = 0
             /\ pout.expectedProfit = SpecN
             /\ pout.expectedROI = 0

\* both ceilings positive, the ROI ceiling binding
C7_Witness ==
    /\ pout # NoResult
    /\ 0 < SpecROI
    /\ SpecROI < SpecDollar
    /\ pin.R = 30
    /\ pout.expectedROI = 3000

\* C8 as claimed: with D = 0 and R = 0, breakEvenPrice equals maxBid.
C8_BreakEvenIsMaxBid ==
    (pout # NoResult /\ pin.D = 0 /\ pin.R = 0) => pout.breakEvenPrice = pout.maxBid

\* C8 amended: with D = 0 and R = 0, breakEvenPrice equals maxBid when the net
\* proceeds are not negative; when they are negative, maxBid is 0 and
\* breakEvenPrice is the negative N/(1 + p), rounded.
C8_BreakEvenIsMaxBidIfProceeds ==
    (pout # NoResult /\ pin.D = 0 /\ pin.R = 0) =>
        IF SpecN >= 0 THEN pout.breakEvenPrice = pout.maxBid
        ELSE /\ pout.maxBid = 0
             /\ pout.breakEvenPrice <= 0
             /\ IsRounded(pout.breakEvenPrice, 10 * SpecN, 11)

C8_Witness ==
    /\ pout # NoResult
    /\ pin.D = 0 /\ pin.R = 0
    /\ SpecN > 0
    /\ pout.maxBid > 0
    /\ pout.breakEvenPrice = pout.maxBid

\* the end-to-end example: currentBid $40, medium, fee 13%, V $150, D $20, R 30%
ExampleCall ==
    /\ pout # NoResult
    /\ pin = [V |-> 150, sizeClass |-> "medium", fee |-> 13, D |-> 20, R |-> 30,
              bid |-> 4000]

ExampleUpToProfit ==
    /\ NetProceeds(pin.V, pin.sizeClass, pin.fee) = 11550
    /\ RoundCents(DollarNum(11550, pin.D, pin.R), BidDen(pin.R)) = 8682
    /\ RoundCents(ROINum(11550, pin.R), BidDen(pin.R)) = 8077
    /\ pout.maxBid = 8077
    /\ MeetsCriteria(pout, pin.bid, pin.D, pin.R)

\* C9 as claimed: the example gives N = 115.5, bid_for_dollar = 86.82,
\* bid_for_roi = 80.77, maxBid = 80.77, expectedProfit 27.3 (to the dime) and
\* meetsCriteria true.
C9_Example ==
    ExampleCall =>
        /\ ExampleUpToProfit
        /\ pout.expectedProfit >= 2725 /\ pout.expectedProfit < 2735

\* C9 amended: the example gives N = 115.5, bid_for_dollar = 86.82,
\* bid_for_roi = 80.77, maxBid = 80.77, expectedProfit 26.65 (with expectedROI
\* 30.00) and meetsCriteria true.
C9_ExampleProfit2665 ==
    ExampleCall =>
        /\ ExampleUpToProfit
        /\ pout.expectedProfit = 2665
        /\ pout.expectedROI = 3000

C9_Witness == ExampleCall /\ pout.maxBid >= pin.bid

\* C10: for the same value, size class, fee rate and premium, the actualProfit
\* returned at a lower current bid (whole cents) is strictly greater than the one
\* returned at a higher current bid, after rounding to cents.
C10_ActualProfitDecreasing ==
    (prev # NoResult /\ pout # NoResult) =>
        /\ prev.in.bid < pin.bid => prev.out.actualProfit > pout.actualProfit
        /\ prev.in.bid > pin.bid => prev.out.actualProfit < pout.actualProfit

\* two calls one cent apart
C10_Witness ==
    /\ prev # NoResult /\ pout # NoResult
    /\ pin.bid = prev.in.bid + 1
    /\ prev.out.actualProfit = pout.actualProfit + 1

-----------------------------------------------------------------------------
(* Properties of fetchWithRetry (SpecFetch)                                *)

FetchEnded == fetchPc \in {"returned", "thrown"}

\* at every moment: what has been attempted and waited so far
C11_Attempts ==
    /\ Len(attemptLog) <= retries + 1
    /\ \A k \in 1..Len(attemptLog) :
         attemptLog[k] = "ok" => (k = Len(attemptLog) /\ fetchPc = "returned")
    /\ fetchPc \in {"fetch", "body", "errorBody"} =>
         (Len(attemptLog) = attempt /\ waits = attempt /\ attempt <= retries)
    /\ fetchPc = "delay" =>
         (Len(attemptLog) = attempt + 1 /\ waits = attempt /\ attempt < retries)
    /\ fetchPc = "returned" =>
         (attemptLog[Len(attemptLog)] = "ok" /\ waits = Len(attemptLog) - 1)
    /\ fetchPc = "thrown" =>
         /\ Len(attemptLog) = retries + 1
         /\ \A k \in 1..Len(attemptLog) : attemptLog[k] \in FailureKinds
         /\ waits = retries

-----------------------------------------------------------------------------
(* Properties of the discovery+extraction entry point (SpecScrape)         *)

ScrapeResponded == scrapePc = "responded"

UrlsOf(seq) == {seq[k].url : k \in 1..Len(seq)}

\* the records extracted from the pages that were fetched, in the order in which
\* the code merges them
MergedItems == IF request.single THEN allItems ELSE Flat(pageItems)

\* the cap the entry point applies: the requested maximum, or the configured
\* 200 when the request asks for 0 or for nothing
AppliedCap == IF request.max_items = 0 THEN 200 ELSE request.max_items

\* C12: when the fetch of an auction page or of a pagination page exhausted its
\* retries, the call does not fail: it answers with the records of the other
\* pages (every URL extracted from them, up to the cap).
C12_FailedPageSkipped ==
    (ScrapeResponded /\ pageFailures # {}) =>
        /\ scraped.success
        /\ \/ UrlsOf(MergedItems) \subseteq UrlsOf(scraped.items)
           \/ Len(scraped.items) = AppliedCap

\* C17: no record returned by the entry point has a text that holds a
\* closed-auction phrase, whichever strategy or fallback produced it.
C17_ClosedNeverReturned ==
    ScrapeResponded => \A k \in 1..Len(scraped.items) : ~scraped.items[k].closed

\* the positions of a sequence of records that hold the first record of their URL
FirstOccurrences(seq) ==
    {k \in 1..Len(seq) : \A j \in 1..(k - 1) : seq[j].url # seq[k].url}

\* the i-th smallest element of a set of numbers
IthSmallest(S, i) == CHOOSE k \in S : Cardinality({j \in S : j < k}) = i - 1

\* C18: in multi-auction mode and in single-URL mode, no two records returned
\* have the same URL, and the records returned are, in order, the first records
\* met of their URLs in the merged pages (the first AppliedCap of them).
C18_NoDuplicateUrls ==
    (ScrapeResponded /\ scraped.success) =>
        /\ \A j, k \in 1..Len(scraped.items) :
             j # k => scraped.items[j].url # scraped.items[k].url
        /\ FirstOccurrences(MergedItems) # {} =>
             /\ Len(scraped.items)
                  = Min(AppliedCap, Cardinality(FirstOccurrences(MergedItems)))
             /\ \A i \in 1..Len(scraped.items) :
                  scraped.items[i]
                    = MergedItems[IthSmallest(FirstOccurrences(MergedItems), i)]

\* two auctions whose pages hold the same two items
C18_Witness ==
    /\ ScrapeResponded /\ scraped.success
    /\ ~request.single
    /\ Len(pageItems) = 2
    /\ Len(pageItems[1]) = 2 /\ Len(pageItems[2]) = 2
    /\ UrlsOf(pageItems[1]) = UrlsOf(pageItems[2])
    /\ Len(scraped.items) = 2

\* C19 as claimed: the entry point never returns more records than the
\* requested maximum, for every requested maximum.
C19_AtMostRequested ==
    ScrapeResponded => Len(scraped.items) <= request.max_items

\* C19 amended: for every requested maximum of at least 1 the entry point never
\* returns more records than requested, in multi-auction mode, in single-URL
\* mode and with the auction links as items; a requested maximum of 0 (or none)
\* is replaced by the configured 200, so that records are returned for it.
C19_AtMostRequestedIfPositive ==
    ScrapeResponded =>
        /\ request.max_items >= 1 => Len(scraped.items) <= request.max_items
        /\ request.max_items = 0 => Len(scraped.items) <= 200

\* two items found, one requested
C19_Witness ==
    /\ ScrapeResponded /\ scraped.success
    /\ request.max_items = 1
    /\ Cardinality(UrlsOf(MergedItems)) = 2
    /\ Len(scraped.items) = 1

-----------------------------------------------------------------------------
(* Properties of the failures of the batch analysis (Spec)                 *)

PostResponded == phase = "responded"

CredentialMissing == ~params.anthropicKey \/ ~params.serperKey

\* the number of raw items whose classification ended in the given way
ClassifiedAs(how) == Cardinality({i \in 1..Len(classified) : classified[i] = how})

\* C13: when ANTHROPIC_API_KEY or SERPER_API_KEY is missing, no classification,
\* valuation, profit or advice step is ever made for the request, and the
\* response is a failure: success false, no items, errors 1.
C13_NoCallWithoutCredential ==
    CredentialMissing =>
        /\ phase \in {"received", "responded"}
        /\ classified = <<>>
        /\ parsedItems = <<>>
        /\ \A i \in DOMAIN calls : calls[i] = 0
        /\ \A i \in DOMAIN stages : stages[i] = {}
        /\ PostResponded =>
             /\ ~response.success
             /\ response.items = <<>>
             /\ response.summary.errors = 1

\* a well-formed request served without the search key
C13_Witness ==
    /\ PostResponded
    /\ params.targetsGiven /\ rawItems # <<>>
    /\ params.anthropicKey /\ ~params.serperKey
    /\ response.status = 500
    /\ response.summary.errors = 1

\* C14: a raw item whose classification fails gives no parsed item, the other
\* raw items are still parsed, and the summary of the response counts the
\* dropped item in errors.
C14_DroppedCounted ==
    (PostResponded /\ response.success) =>
        /\ Len(parsedItems) = ClassifiedAs("parsed")
        /\ response.summary.errors >= ClassifiedAs("failed")

\* C16: a failure of the advice call removes no item from the results: every
\* eligible item is returned, and an item that got the default advice has the
\* valuation, the profit analysis and the meetsCriteria flag it has with the
\* advice of a call that succeeded.
C16_AdviceFailureKeepsItem ==
    (PostResponded /\ response.success) =>
        /\ Len(response.items) = Len(items)
        /\ response.summary.errors = 0
        /\ \A k \in 1..Len(response.items) :
             LET a == response.items[k]
             IN  a.resale = "default" =>
                   a = [processItem(a.item, a.valuation, params, "parsed")
                          EXCEPT !.resale = "default"]

\* two items returned, the advice call failed for one of them only
C16_Witness ==
    /\ PostResponded /\ response.success
    /\ Len(response.items) = 2
    /\ \E j, k \in 1..2 :
         /\ response.items[j].resale = "default"
         /\ response.items[j].valuation # 0
         /\ response.items[k].resale = "advice"

-----------------------------------------------------------------------------
(* Properties of getValuation (SpecValuation)                              *)

ValuationReturned == valPc = "returned"

\* no search of the call gave an organic snippet
NoSnippetFound ==
    \A k \in 1..Len(queryLog) : queryLog[k] \in {SearchFailed, NoOrganic, [organic |-> 0]}

\* C15: getValuation never throws, it always returns a valuation; it returns only
\* after all three queries were issued, whether or not some of them failed; and
\* when no query gave an organic snippet it returns estimatedValue 0 with
\* confidence low without having made a synthesis call.
C15_PlaceholderWithoutEvidence ==
    /\ valPc \in {"search", "delay", "synthesis", "returned"}
    /\ synthesis <= 1
    /\ ValuationReturned =>
         /\ valuation # NoResult
         /\ Len(queryLog) = 3
         /\ NoSnippetFound =>
              /\ valuation.estimatedValue = 0
              /\ valuation.confidence = "low"
              /\ synthesis = 0

\* the first query fails, the second has no organic part, the third has an empty one
C15_Witness ==
    /\ ValuationReturned
    /\ queryLog = <<SearchFailed, NoOrganic, [organic |-> 0]>>
    /\ synthesis = 0
    /\ valuation.estimatedValue = 0 /\ valuation.confidence = "low"

-----------------------------------------------------------------------------
(* Properties of the interest level (SpecParse)                            *)

ItemParsed == parsedItem # NoResult /\ parsedItem # Null

\* the counts of the raw item, a missing count taken as 0
CountOf(c) == IF c = Missing THEN 0 ELSE c

\* C20: the interestLevel of a parsed item depends on the bidCount and the
\* bidderCount of the raw item only (missing counts as 0), not on what the
\* classifier answered: high exactly when there are at least 2 bidders with at
\* least 3 bids per bidder on average, medium exactly when it is not high and
\* there are at least 2 bidders or at least 4 bids, low otherwise; (6,2) is high,
\* (3,2) is medium and (1,1) is low.
C20_InterestFromCounts ==
    ItemParsed =>
        LET bids == CountOf(rawItem.bidCount)
            bidders == CountOf(rawItem.bidderCount)
            high == bidders >= 2 /\ bids >= 3 * bidders
            medium == ~high /\ (bidders >= 2 \/ bids >= 4)
            level == parsedItem.interestLevel
        IN  /\ level \in {"low", "medium", "high"}
            /\ (level = "high") = high
            /\ (level = "medium") = medium
            /\ (bids = 6 /\ bidders = 2) => level = "high"
            /\ (bids = 3 /\ bidders = 2) => level = "medium"
            /\ (bids = 1 /\ bidders = 1) => level = "low"

\* six bids of two bidders: high, although the classifier answered low
C20_Witness ==
    /\ ItemParsed
    /\ rawItem.bidCount = 6 /\ rawItem.bidderCount = 2
    /\ classifierJson.interestLevel = "low"
    /\ parsedItem.interestLevel = "high"

-----------------------------------------------------------------------------
(* Properties of one classified item (SpecParse)                           *)

\* the kinds of items the second guard is said to exclude
ClaimedDenylist ==
    {"vehicles", "real estate", "firearms", "bullion", "coins", "heavy equipment",
     "farm equipment", "industrial"}

\* C21: when the category or the title of the classifier's answer contains a
\* keyword of the claimed denylist, the parsed item is excluded, also when the
\* classifier answered excluded = false; and an item the classifier excluded is
\* always excluded.
C21_DenylistForcesExcluded ==
    ItemParsed =>
        /\ classifierJson.mentions \cap ClaimedDenylist # {} => parsedItem.excluded
        /\ classifierJson.excluded => parsedItem.excluded

\* C30: every parsed item has currentBid >= 0, whatever number the classifier
\* gave and whatever bid the scraper captured; when the classifier gave 0 and
\* the scraper captured a positive bid, currentBid is the scraper's bid.
C30_BidNeverNegative ==
    ItemParsed =>
        /\ parsedItem.currentBid >= 0
        /\ (classifierJson.currentBid = 0 /\ rawItem.currentBid > 0)
             => parsedItem.currentBid = rawItem.currentBid

-----------------------------------------------------------------------------
(* Properties of the selection of auctions (SpecScrape)                    *)

AuctionsSelected == ~request.single /\ auctions # <<>>

\* the discovered auctions whose end time was not parsed, or is not in the past
\* and lies inside the window
InsideOrUnparsed == SelectSeq(auctions, LAMBDA a : a.end \in {"unparsed", "inWindow"})

\* the discovered auctions whose end time was not parsed or is after now
StillOpen == SelectSeq(auctions, LAMBDA a : a.end \in {"unparsed", "inWindow", "outside"})

NoPastSelected == \A k \in 1..Len(toScrape) : toScrape[k].end # "past"

\* C22 as claimed: the auctions selected for scraping are exactly the discovered
\* auctions whose end time was not parsed or is not in the past and inside the
\* window, and none of them has an end time in the past.
C22_SelectedInsideWindow ==
    AuctionsSelected => toScrape = InsideOrUnparsed /\ NoPastSelected

\* C22 amended: when some discovered auction has an end time that was not
\* parsed or is not in the past and inside the window, exactly those auctions
\* are selected; when there is none, the first 10 discovered auctions whose end
\* time is after now are selected, although they end outside the window; in
\* both cases no auction with an end time in the past is selected.
C22_SelectedOrStillOpen ==
    AuctionsSelected =>
        /\ InsideOrUnparsed # <<>> => toScrape = InsideOrUnparsed
        /\ InsideOrUnparsed = <<>> =>
             toScrape = SubSeq(StillOpen, 1, Min(10, Len(StillOpen)))
        /\ NoPastSelected

\* an auction that has ended and one that ends after the window: the fallback
\* selects the second only
C22_Witness ==
    /\ AuctionsSelected
    /\ Len(auctions) = 2
    /\ auctions[1].end = "past" /\ auctions[2].end = "outside"
    /\ toScrape = <<auctions[2]>>
    /\ scrapePc = "responded"

-----------------------------------------------------------------------------
(* Properties of the worker pool: calls in flight (SpecPool)               *)

\* the workers waiting for the processor call of their item to return
InFlightWorkers == {w \in Workers : pc[w] \in {"valuation", "advice"}}

RECURSIVE SumUpTo(_, _)
SumUpTo(f, i) == IF i < 0 THEN 0 ELSE f[i] + SumUpTo(f, i - 1)

\* the processor calls started so far
CallsStarted == SumUpTo(calls, MaxItems + 1)

\* the processor calls that have returned, with an item or with null
CallsFinished == Len(results) + Cardinality(failed)

\* C23: at every moment the number of processor calls in flight is at most
\* min(K, N); the calls in flight are those of distinct workers on distinct
\* items, and every call started has either finished or is the one call its
\* worker is waiting for.
C23_InFlightBounded ==
    /\ Cardinality(InFlightWorkers) <= concurrency
    /\ Cardinality(InFlightWorkers) <= Len(items)
    /\ \A v, w \in InFlightWorkers : v # w => cur[v] # cur[w]
    /\ CallsStarted = CallsFinished + Cardinality(InFlightWorkers)

\* four items, two workers: both busy after a first item has finished
C23_Witness ==
    /\ phase = "pool"
    /\ concurrency = 2 /\ Len(items) = 4
    /\ Cardinality(InFlightWorkers) = 2
    /\ CallsFinished >= 1

-----------------------------------------------------------------------------
(* Properties of one attempt of fetchWithRetry (SpecFetch)                 *)

AttemptPending == fetchPc \in {"fetch", "body", "errorBody"}

\* the attempt under way has just failed on a status that is no success
FailedOnStatus ==
    /\ fetchPc \in {"delay", "thrown"}
    /\ attemptLog # <<>>
    /\ attemptLog[Len(attemptLog)] = "status"

\* C24: an attempt never stays pending for longer than the fetch timeout, also
\* while the body is read after the headers have arrived.
C24_AttemptBounded == AttemptPending => elapsed <= FetchTimeout

\* C25: when an attempt fails on a status that is no success, the body of the
\* response has not been read.
C25_StatusBeforeBody ==
    FailedOnStatus => \A k \in 1..Len(events) : events[k] # "body"

-----------------------------------------------------------------------------
(* Properties of the parallel fetch of the auctions (SpecScrape)           *)

\* C26: at most parallelAuctions auction fetches are in flight at any time, and
\* when the scrape has answered, every auction that was selected has been
\* fetched and has its list of items in the merge.
C26_EverySelectedFetched ==
    /\ Cardinality(inFlight) <= ParallelAuctions
    /\ (ScrapeResponded /\ AuctionsSelected) => Len(pageItems) = Len(toScrape)

-----------------------------------------------------------------------------
(* Properties of getAuctionItems on one page (SpecPage)                    *)

PageExtracted == ran # {}

\* the second strategy was used: no structural block, some item link
WindowsUsed == PageExtracted /\ html.blocks = <<>> /\ html.windows # <<>>

\* C27: when the windows are used, every item link of the page whose window holds
\* no closed-auction phrase gives one record, and that record has the URL of
\* that link.
C27_EveryOpenLinkExtracted ==
    WindowsUsed =>
        \A k \in 1..Len(html.windows) :
            ~html.windows[k].closed =>
                Cardinality({j \in 1..Len(extracted) :
                                extracted[j].url = html.windows[k].link}) = 1

\* the candidates of the first loop: the blocks, or the windows without blocks
FirstLoopCandidates == IF html.blocks # <<>> THEN html.blocks ELSE html.windows

SomeOpenCandidate == \E k \in 1..Len(FirstLoopCandidates) : ~FirstLoopCandidates[k].closed

\* C28 as claimed: the strategies run in the order 1, 2, 3, a later one only when
\* every earlier one found no candidate, and the records returned come from
\* exactly one strategy.
C28_LaterOnlyWithoutCandidates ==
    PageExtracted =>
        /\ 1 \in ran
        /\ 2 \in ran => html.blocks = <<>>
        /\ 3 \in ran => html.blocks = <<>> /\ html.windows = <<>>
        /\ Cardinality(pushed) <= 1

\* C28 amended: strategy 1 always runs; strategy 2 runs exactly when strategy 1
\* found no candidate; strategy 3 runs exactly when the strategies before it
\* kept no record, which is also the case when they found candidates that were
\* all closed; the records returned come from at most one strategy, and from
\* strategy 1 or 2 whenever one of their candidates is not closed.
C28_LaterOnlyWithoutRecords ==
    PageExtracted =>
        /\ 1 \in ran
        /\ (2 \in ran) = (html.blocks = <<>>)
        /\ (3 \in ran) = ~SomeOpenCandidate
        /\ Cardinality(pushed) <= 1
        /\ SomeOpenCandidate => extracted # <<>> /\ 3 \notin pushed
        /\ (extracted # <<>>) = (pushed # {})

\* a structural block that is closed, no window, an open lot anchor: the third
\* strategy runs and gives the record
C28_Witness ==
    /\ PageExtracted
    /\ Len(html.blocks) = 1 /\ html.blocks[1].closed
    /\ Len(html.lots) = 1 /\ ~html.lots[1].closed
    /\ ran = {1, 3}
    /\ pushed = {3}
    /\ Len(extracted) = 1

-----------------------------------------------------------------------------
(* Properties of the URL variants of a single auction (SpecScrape)          *)

\* the loop over `urlsToTry` is over and the pagination probe is pending
VariantsOver == scrapePc = "probe"

\* the number of items variant v returns
VariantCount(v) == Len(served[v].items)

\* allItems is the list of variant v, the first of the variants 1..last to
\* return as many items as any of them
FirstLongest(v, last) ==
    /\ allItems = served[v].items
    /\ \A u \in 1..last : VariantCount(u) <= VariantCount(v)
    /\ \A u \in 1..(v - 1) : VariantCount(u) < VariantCount(v)

\* C29, as stated: when the loop over the URL variants is over, the retained
\* list is that of a variant returning the most items among all four variants.
C29_RetainsMostOfAll ==
    VariantsOver => \E v \in 1..UrlVariants : FirstLongest(v, UrlVariants)

\* C29, amended: the variants are tried in order up to the first that returns
\* EnoughItems items or more; the retained list is that of the first longest
\* among the variants tried, and the variants after it are left untried
\* whatever they would return.
C29_RetainsMostOfTried ==
    VariantsOver =>
        /\ \E v \in 1..variant : FirstLongest(v, variant)
        /\ \A u \in 1..(variant - 1) : VariantCount(u) < EnoughItems
        /\ variant < UrlVariants => VariantCount(variant) >= EnoughItems

\* the second variant ended the loop with a longer list than the first, and the
\* third, left untried, would return more than the list retained
C29_Witness ==
    /\ VariantsOver
    /\ variant = 2
    /\ Len(served[1].items) = 1
    /\ allItems = served[2].items
    /\ VariantCount(3) > Len(allItems)

====
